---- MODULE Spec2Model ----
(***************************************************************************)
(* countdown (src/main.rs): a command line tool that stores named events   *)
(* with a Unix timestamp in a configuration file and lists the days left   *)
(* until each event that has not expired, sorted or shuffled, and capped.  *)
(*                                                                         *)
(* Numbers of seconds do not fit TLC's 32-bit integers (u32::MAX is        *)
(* 4294967295), so a number of seconds is kept as two digits in radix      *)
(* SECONDS_IN_DAY: [d |-> days, s |-> seconds of the day], standing for    *)
(* d * 86400 + s with 0 <= s < 86400.  A SystemTime adds the nanoseconds   *)
(* of the second, as the timespec of the standard library does; before the *)
(* epoch d is negative and s, nanos stay non-negative.                     *)
(***************************************************************************)
EXTENDS Integers, Sequences, FiniteSets, TLC

VARIABLES
    events,     \* CountdownConfig.events as stored in the configuration file
    now,        \* the SystemTime captured by the invocation
    order,      \* CountdownArgs.order : Option<SortOrder>
    n,          \* CountdownArgs.n : Option<usize>
    current,    \* applicable_events: the filtered Vec<FutureEvent>
    sorted,     \* applicable_events: the ordered Vec<FutureEvent>
    result,     \* what applicable_events / limit_events returned
    status      \* what the last invocation printed, or the stage reached

vars == <<events, now, order, n, current, sorted, result, status>>

\* ------------------------------------------------------------- constants

SECONDS_IN_DAY == 86400

\* std::time: nanoseconds in a second (Duration / SystemTime sub-second part)
NANOS_PER_SEC == 1000000000

\* u16::MAX, the largest day count u16::try_from accepts
U16_MAX == 65535

\* u32::MAX = 4294967295 = U32_MAX_DAYS * 86400 + U32_MAX_SECS
U32_MAX_DAYS == 49710
U32_MAX_SECS == 23295

\* ---------------------------------------------------------------- bounds

MaxEvents == 3      \* events the configuration file holds at most
MaxLimit == 3       \* the largest -n value tried
MaxFuture == 3      \* length of the lists handed to sort_events directly

\* ------------------------------------------------------------ Option<T>

None == [ok |-> FALSE]
Some(x) == [ok |-> TRUE, v |-> x]

\* ------------------------------------------------- seconds, two digits

Secs(d, s) == [d |-> d, s |-> s]

\* whole seconds, from a number small enough for one machine integer
SecsOf(k) == Secs(k \div SECONDS_IN_DAY, k % SECONDS_IN_DAY)

\* the values a u32 holds
IsU32(w) ==
    /\ w.d >= 0 /\ w.s >= 0 /\ w.s < SECONDS_IN_DAY
    /\ (w.d < U32_MAX_DAYS \/ (w.d = U32_MAX_DAYS /\ w.s <= U32_MAX_SECS))

\* ------------------------------------------------- SystemTime, Duration

Time(d, s, nanos) == [d |-> d, s |-> s, nanos |-> nanos]

UNIX_EPOCH == Time(0, 0, 0)

\* Duration::from_secs(secs)
Duration_from_secs(secs) == [d |-> secs.d, s |-> secs.s, nanos |-> 0]

\* SystemTime + Duration, with the carries of the timespec addition
SystemTimeAdd(t, dur) ==
    LET nsum == t.nanos + dur.nanos
        c1 == IF nsum >= NANOS_PER_SEC THEN 1 ELSE 0
        ssum == t.s + dur.s + c1
        c2 == IF ssum >= SECONDS_IN_DAY THEN 1 ELSE 0
    IN  Time(t.d + dur.d + c2, ssum - c2 * SECONDS_IN_DAY, nsum - c1 * NANOS_PER_SEC)

\* a <= b on SystemTime (timespec order: seconds, then nanoseconds)
SystemTimeLe(a, b) ==
    \/ a.d < b.d
    \/ a.d = b.d /\ a.s < b.s
    \/ a.d = b.d /\ a.s = b.s /\ a.nanos <= b.nanos

\* duration_since that fails when the two instants are equal
duration_since_strict(self, earlier) ==
    IF SystemTimeLe(earlier, self) /\ earlier # self
    THEN LET b1 == IF self.nanos >= earlier.nanos THEN 0 ELSE 1
             s1 == self.s - earlier.s - b1
             b2 == IF s1 >= 0 THEN 0 ELSE 1
         IN  Some([d |-> self.d - earlier.d - b2,
                   s |-> s1 + b2 * SECONDS_IN_DAY,
                   nanos |-> self.nanos - earlier.nanos + b1 * NANOS_PER_SEC])
    ELSE None

\* SystemTime::duration_since(self, earlier): Ok(self - earlier) when
\* earlier <= self, Err otherwise.
duration_since(self, earlier) ==
    IF SystemTimeLe(earlier, self)
    THEN LET b1 == IF self.nanos >= earlier.nanos THEN 0 ELSE 1
             s1 == self.s - earlier.s - b1
             b2 == IF s1 >= 0 THEN 0 ELSE 1
         IN  Some([d |-> self.d - earlier.d - b2,
                   s |-> s1 + b2 * SECONDS_IN_DAY,
                   nanos |-> self.nanos - earlier.nanos + b1 * NANOS_PER_SEC])
    ELSE None

\* Duration::as_secs: the whole seconds, the nanoseconds dropped
as_secs(dur) == Secs(dur.d, dur.s)

\* a division that rounds up
DivSecondsInDayCeil(secs) == IF secs.s > 0 THEN secs.d + 1 ELSE secs.d

\* secs / SECONDS_IN_DAY on u64: the quotient is the leading digit
DivSecondsInDay(secs) == secs.d

\* a conversion that wraps, as the cast `x as u16` does
u16_wrapping(x) == Some(x % (U16_MAX + 1))

\* u16::try_from(x).ok()
u16_try_from(x) == IF x >= 0 /\ x <= U16_MAX THEN Some(x) ELSE None

\* ----------------------------------------------------------------- Event

Event(name, time) == [name |-> name, time |-> time]

FutureEvent(name, days) == [name |-> name, days_left |-> days]

\* Event::system_time
system_time(ev) == SystemTimeAdd(UNIX_EPOCH, Duration_from_secs(ev.time))

\* Event::days_left
days_left(ev, current_time) ==
    LET dur == duration_since(system_time(ev), current_time)
    IN  IF dur.ok THEN u16_try_from(DivSecondsInDay(as_secs(dur.v))) ELSE None

\* Event::as_future_event
as_future_event(ev, current_time) ==
    LET days == days_left(ev, current_time)
    IN  IF days.ok THEN Some(FutureEvent(ev.name, days.v)) ELSE None

\* -------------------------------------------------------------- pipeline

RECURSIVE filter_collect_reversed(_, _)
\* a filter that collects the survivors back to front
filter_collect_reversed(t, evs) ==
    LET yield(fe) == IF fe.ok THEN <<fe.v>> ELSE <<>>
    IN  IF evs = <<>> THEN <<>>
        ELSE filter_collect_reversed(t, Tail(evs)) \o yield(as_future_event(Head(evs), t))

RECURSIVE filter_expired_events(_, _)
\* events.iter().filter_map(|ev| ev.as_future_event(now)).collect()
filter_expired_events(t, evs) ==
    LET yield(fe) == IF fe.ok THEN <<fe.v>> ELSE <<>>
    IN  IF evs = <<>> THEN <<>>
        ELSE yield(as_future_event(Head(evs), t)) \o filter_expired_events(t, Tail(evs))

\* the comparator closure of events_sorted_by_time
compare(a, b, is_asc) ==
    LET x == IF is_asc THEN a.days_left ELSE b.days_left
        y == IF is_asc THEN b.days_left ELSE a.days_left
    IN  IF x < y THEN "Less" ELSE IF x = y THEN "Equal" ELSE "Greater"

RECURSIVE insert_tail_unstable(_, _, _)
\* an insertion that also moves left past the elements that compare Equal
insert_tail_unstable(prefix, x, is_asc) ==
    IF prefix = <<>> THEN <<x>>
    ELSE IF compare(prefix[Len(prefix)], x, is_asc) # "Less"
         THEN Append(insert_tail_unstable(SubSeq(prefix, 1, Len(prefix) - 1), x, is_asc),
                     prefix[Len(prefix)])
         ELSE Append(prefix, x)

RECURSIVE insert_tail(_, _, _)
\* slice::sort_by on a short slice is an insertion sort: the new element moves
\* left past every element that compares Greater than it, and no further.
insert_tail(prefix, x, is_asc) ==
    IF prefix = <<>> THEN <<x>>
    ELSE IF compare(prefix[Len(prefix)], x, is_asc) = "Greater"
         THEN Append(insert_tail(SubSeq(prefix, 1, Len(prefix) - 1), x, is_asc),
                     prefix[Len(prefix)])
         ELSE Append(prefix, x)

RECURSIVE sort_by(_, _, _)
\* sort_by(v, k, is_asc): v with its first k elements put in order
sort_by(v, k, is_asc) ==
    IF k = 0 THEN <<>>
    ELSE insert_tail(sort_by(v, k - 1, is_asc), v[k], is_asc)

\* a descending order obtained by reversing the ascending one
events_sorted_reversing(evs, is_asc) ==
    LET asc == sort_by(evs, Len(evs), TRUE)
    IN  IF is_asc THEN asc ELSE [i \in 1..Len(asc) |-> asc[Len(asc) + 1 - i]]

events_sorted_by_time(evs, is_asc) == sort_by(evs, Len(evs), is_asc)

\* the draws the random source may hand to a shuffle of len elements:
\* for each i from len down to 2 an index in 1..i (gen_index(rng, i + 1))
RngDraws(len) == {f \in [2..len -> 1..len] : \A i \in 2..len : f[i] <= i}

\* a swap that forgets to write the second slot
swap_overwrite(v, i, j) == [v EXCEPT ![i] = v[j]]

swap(v, i, j) == [v EXCEPT ![i] = v[j], ![j] = v[i]]

RECURSIVE shuffle(_, _, _)
\* SliceRandom::shuffle: for i in (1..len).rev() { swap(i, gen_index(rng, i + 1)) }
shuffle(v, i, rng) ==
    IF i < 2 THEN v ELSE shuffle(swap(v, i, rng[i]), i - 1, rng)

\* sort_events; ord is Option<SortOrder>, rng the draws of thread_rng()
sort_events(evs, ord, rng) ==
    IF ord.ok
    THEN CASE ord.v = "Shuffle" -> shuffle(evs, Len(evs), rng)
           [] ord.v = "TimeAsc" -> events_sorted_by_time(evs, TRUE)
           [] ord.v = "TimeDesc" -> events_sorted_by_time(evs, FALSE)
    ELSE events_sorted_by_time(evs, TRUE)

RECURSIVE take_one_more(_, _)
\* a take that stops one element late
take_one_more(v, k) ==
    IF v = <<>> THEN <<>>
    ELSE <<Head(v)>> \o (IF k = 0 THEN <<>> ELSE take_one_more(Tail(v), k - 1))

RECURSIVE take(_, _)
\* Iterator::take(k): at most k elements, from the front
take(v, k) ==
    IF k = 0 \/ v = <<>> THEN <<>> ELSE <<Head(v)>> \o take(Tail(v), k - 1)

\* limit_events
limit_events(evs, limit) == IF limit.ok THEN take(evs, limit.v) ELSE evs

\* a pipeline that truncates before it orders
applicable_events_limit_first(t, evs, ord, limit, rng) ==
    LET ordered(cur, lim) ==
            [current |-> cur, sorted |-> sort_events(cur, ord, rng),
             ret |-> sort_events(lim, ord, rng)]
        limited(cur) == ordered(cur, limit_events(cur, limit))
    IN  limited(filter_expired_events(t, evs))

\* applicable_events: its two locals and the value it returns
applicable_events(t, evs, ord, limit, rng) ==
    LET limited(cur, srt) ==
            [current |-> cur, sorted |-> srt, ret |-> limit_events(srt, limit)]
        ordered(cur) == limited(cur, sort_events(cur, ord, rng))
    IN  ordered(filter_expired_events(t, evs))

\* ---------------------------------------------------- configuration file

\* write_configs: the file is opened in append mode and one [[events]] table
\* is written after what it holds
write_configs(file, config) == file \o config.events

\* read_configs: a file that is missing or empty is Err("No Entires")
read_configs(file) ==
    IF file = <<>> THEN [ok |-> FALSE, err |-> "No Entires"]
    ELSE Some([events |-> file])

\* ---------------------------------------------------------------- inputs

\* add-event arguments, around R = 1000 s: two days ahead, 100 s past, one
\* day ahead, one day and 20 s ahead, and R itself
AddArgs ==
    { Event("A", SecsOf(173800)), Event("B", SecsOf(900)), Event("C", SecsOf(87400)),
      Event("B", SecsOf(87420)), Event("C", SecsOf(1000)) }

\* SystemTime::now(): R = 1000 s, and one nanosecond later
Clock == {Time(0, 1000, 0), Time(0, 1000, 1)}

SortOrder == {"Shuffle", "TimeAsc", "TimeDesc"}

Orders == {None} \cup {Some(o) : o \in SortOrder}

Limits == {None} \cup {Some(k) : k \in 0..MaxLimit}

\* ------------------------------------------------------------ the program

\* No invocation is running: only the configuration file holds state.
Idle ==
    /\ now = UNIX_EPOCH
    /\ order = None
    /\ n = None
    /\ current = <<>>
    /\ sorted = <<>>
    /\ result = <<>>
    /\ status = "idle"

Init == events = <<>> /\ Idle

\* main, sub = Some(AddEvent { event, date }); prints "Added!"
AddEvent(event, date) ==
    /\ status = "idle"
    /\ IsU32(date)
    /\ Len(events) < MaxEvents
    /\ events' = write_configs(events, [events |-> <<Event(event, date)>>])
    /\ status' = "Added!"
    /\ UNCHANGED <<now, order, n, current, sorted, result>>

\* main, no subcommand: read the file, print the applicable events
Show(t, ord, limit, rng) ==
    LET file == read_configs(events)
    IN  /\ status = "idle"
        /\ now' = t
        /\ order' = ord
        /\ n' = limit
        /\ UNCHANGED events
        /\ IF file.ok
           THEN \E r \in {applicable_events(t, file.v.events, ord, limit, rng)} :
                    /\ current' = r.current
                    /\ sorted' = r.sorted
                    /\ result' = r.ret
                    /\ status' = "listed"
           ELSE /\ current' = <<>>
                /\ sorted' = <<>>
                /\ result' = <<>>
                /\ status' = file.err

\* the process ends; what it computed is gone, the file stays
Exit ==
    /\ status # "idle"
    /\ now' = UNIX_EPOCH
    /\ order' = None
    /\ n' = None
    /\ current' = <<>>
    /\ sorted' = <<>>
    /\ result' = <<>>
    /\ status' = "idle"
    /\ UNCHANGED events

\* the draws thread_rng() is asked for: none unless the order is Shuffle, and
\* then one for each element but the first of the list being shuffled
Draws(t, ord) ==
    IF ord = Some("Shuffle")
    THEN RngDraws(Len(filter_expired_events(t, events)))
    ELSE {<<>>}

Next ==
    \/ \E arg \in AddArgs : AddEvent(arg.name, arg.time)
    \/ \E t \in Clock, ord \in Orders, limit \in Limits :
          \E rng \in Draws(t, ord) : Show(t, ord, limit, rng)
    \/ Exit

Spec == Init /\ [][Next]_vars

\* ------------------------------------- Event::days_left on single events

\* u32 timestamps: the epoch, values around 1000 s, whole days, one second
\* short of three days after 1000 s, and u32::MAX
DayDates ==
    { SecsOf(0), SecsOf(900), SecsOf(1000), SecsOf(1020), SecsOf(5000), SecsOf(87400),
      SecsOf(172800), SecsOf(173800), SecsOf(260199), Secs(U32_MAX_DAYS, U32_MAX_SECS) }

\* reference instants: at and after the epoch, with and without nanoseconds,
\* and before the epoch, around the instant 65536 days before u32::MAX
DayClock ==
    { UNIX_EPOCH, Time(0, 1000, 0), Time(0, 1000, 1), Time(0, 10000, 0), Time(2, 1, 0),
      Time(-1, 86399, 999999999), Time(-15825, 0, 0), Time(-15826, 23295, 0),
      Time(-15826, 23295, 1), Time(-20000, 0, 0) }

DayNames == {"A", "B"}

InitDays ==
    /\ events \in {<<Event(name, date)>> : name \in DayNames,
                                            date \in {w \in DayDates : IsU32(w)}}
    /\ now \in DayClock
    /\ order = None
    /\ n = None
    /\ current = <<>>
    /\ sorted = <<>>
    /\ result = <<>>
    /\ status = "input"

\* filter_expired_events(now, &events) on the one-element list
FilterOne ==
    /\ status = "input"
    /\ current' = filter_expired_events(now, events)
    /\ status' = "filtered"
    /\ UNCHANGED <<events, now, order, n, sorted, result>>

NextDays == FilterOne

SpecDays == InitDays /\ [][NextDays]_vars

\* --------------------------- sort_events and limit_events on any list

\* the three events of the sort tests, and one that ties with the first
FutureEvents ==
    { FutureEvent("A", 900), FutureEvent("B", 1020), FutureEvent("C", 543),
      FutureEvent("C", 900) }

FutureLists == UNION {[1..k -> FutureEvents] : k \in 0..MaxFuture}

InitOrder ==
    /\ events = <<>>
    /\ now = UNIX_EPOCH
    /\ order = None
    /\ n = None
    /\ current \in FutureLists
    /\ sorted = <<>>
    /\ result = <<>>
    /\ status = "input"

\* sort_events(&current, &order)
SortEvents(ord, rng) ==
    /\ status = "input"
    /\ order' = ord
    /\ sorted' = sort_events(current, ord, rng)
    /\ status' = "sorted"
    /\ UNCHANGED <<events, now, n, current, result>>

\* limit_events(sorted, n)
LimitEvents(limit) ==
    /\ status = "sorted"
    /\ n' = limit
    /\ result' = limit_events(sorted, limit)
    /\ status' = "limited"
    /\ UNCHANGED <<events, now, order, current, sorted>>

NextOrder ==
    \/ \E ord \in Orders :
          \E rng \in (IF ord = Some("Shuffle") THEN RngDraws(Len(current)) ELSE {<<>>}) :
             SortEvents(ord, rng)
    \/ \E limit \in Limits : LimitEvents(limit)

SpecOrder == InitOrder /\ [][NextOrder]_vars

\* ============================================================ properties

\* The properties state what is expected of the pipeline with their own
\* arithmetic on instants: comparisons and whole-day shifts, no subtraction.

\* the target moment of a stored event
EventInstant(ev) == Time(ev.time.d, ev.time.s, 0)

\* a is strictly before b
Earlier(a, b) ==
    \/ a.d < b.d
    \/ a.d = b.d /\ a.s < b.s
    \/ a.d = b.d /\ a.s = b.s /\ a.nanos < b.nanos

\* the instant k whole days after t
DaysLater(t, k) == Time(t.d + k, t.s, t.nanos)

\* q = floor((ev.time - R) / 86400):  R + q days <= ev.time < R + (q + 1) days
IsFloorDays(ev, R, q) ==
    /\ ~Earlier(EventInstant(ev), DaysLater(R, q))
    /\ Earlier(EventInstant(ev), DaysLater(R, q + 1))

\* floor((ev.time - R) / 86400), for an event not before R
ExpDays(ev, R) ==
    LET dd == ev.time.d - R.d
    IN  IF Earlier(EventInstant(ev), DaysLater(R, dd)) THEN dd - 1 ELSE dd

Min(a, b) == IF a <= b THEN a ELSE b

Count(seq, e) == Cardinality({i \in DOMAIN seq : seq[i] = e})

\* the two sequences hold the same elements, each as many times
SameBag(a, b) ==
    \A e \in {a[i] : i \in DOMAIN a} \cup {b[i] : i \in DOMAIN b} : Count(a, e) = Count(b, e)

\* the elements of seq with d days left, in their order in seq
WithDays(seq, d) == SelectSeq(seq, LAMBDA e : e.days_left = d)

\* elements with equal days_left are in out in the order they have in inp
TiesKeepOrder(out, inp) ==
    \A d \in {inp[i].days_left : i \in DOMAIN inp} : WithDays(out, d) = WithDays(inp, d)

\* the j-th smallest element of a set of indices
Nth(S, j) == CHOOSE i \in S : Cardinality({k \in S : k < i}) = j - 1

\* the place of element i in the stable order of seq
Rank(seq, i, asc) ==
    1 + Cardinality({j \in DOMAIN seq :
                        IF asc THEN seq[j].days_left < seq[i].days_left
                               ELSE seq[j].days_left > seq[i].days_left})
      + Cardinality({j \in DOMAIN seq : j < i /\ seq[j].days_left = seq[i].days_left})

ExpOrder(seq, asc) ==
    [p \in 1..Len(seq) |-> seq[CHOOSE i \in DOMAIN seq : Rank(seq, i, asc) = p]]

ExpLimit(seq, limit) ==
    IF limit.ok THEN SubSeq(seq, 1, Min(limit.v, Len(seq))) ELSE seq

\* the events the filter keeps: not before R, and at most U16_MAX days ahead
ExpFilter(R, evs) ==
    LET kept == SelectSeq(evs, LAMBDA e : /\ ~Earlier(EventInstant(e), R)
                                          /\ ExpDays(e, R) <= U16_MAX)
    IN  [i \in 1..Len(kept) |-> FutureEvent(kept[i].name, ExpDays(kept[i], R))]

Ordered == status \in {"sorted", "limited"}

\* the end-to-end scenario: A two days ahead, B 100 s past, C one day ahead
Scenario ==
    /\ status = "listed"
    /\ now = Time(0, 1000, 0)
    /\ events = << Event("A", SecsOf(173800)), Event("B", SecsOf(900)),
                   Event("C", SecsOf(87400)) >>

\* C1: an event whose time is at or before the reference instant, the
\* instant itself included, yields no FutureEvent.
C1_ExpiredYieldsNothing ==
    status = "filtered" =>
        (~Earlier(now, EventInstant(events[1])) => current = <<>>)

\* C2: an event strictly after the reference instant, at most 65535 days
\* ahead, alone in the list, yields exactly one FutureEvent with its name and
\* days_left = floor((time - R) / 86400), never rounded up: 172800 s ahead
\* gives 2, 259199 s ahead gives 2, 20 s ahead gives 0.
C2_FloorOfDays ==
    status = "filtered" =>
        LET E == events[1]
            R == Time(0, 1000, 0)
        IN  /\ (Earlier(now, EventInstant(E))
                  /\ Earlier(EventInstant(E), DaysLater(now, U16_MAX + 1)))
               => /\ Len(current) = 1
                  /\ current[1].name = E.name
                  /\ IsFloorDays(E, now, current[1].days_left)
            /\ (now = R /\ E.time = SecsOf(173800)) => current = <<FutureEvent(E.name, 2)>>
            /\ (now = R /\ E.time = SecsOf(260199)) => current = <<FutureEvent(E.name, 2)>>
            /\ (now = R /\ E.time = SecsOf(1020)) => current = <<FutureEvent(E.name, 0)>>

C2_Witness ==
    /\ status = "filtered"
    /\ now = Time(0, 1000, 0)
    /\ events[1].time = SecsOf(260199)
    /\ current = <<FutureEvent(events[1].name, 2)>>

\* C3: the output of filter_expired_events is an order-preserving projection
\* of its input: its elements come, one each, from input events at
\* increasing positions, with the name and the day count of that event.
C3_FilterKeepsOrder ==
    status = "listed" =>
        \E S \in SUBSET DOMAIN events :
            /\ Cardinality(S) = Len(current)
            /\ \A j \in 1..Len(current) :
                  /\ current[j].name = events[Nth(S, j)].name
                  /\ IsFloorDays(events[Nth(S, j)], now, current[j].days_left)

C3_Witness ==
    /\ Scenario
    /\ current = <<FutureEvent("A", 2), FutureEvent("C", 1)>>

\* C4: sort_events with TimeAsc returns a permutation of its input that is
\* non-decreasing in days_left, events with equal days_left in input order.
C4_AscendingStable ==
    (Ordered /\ order = Some("TimeAsc")) =>
        /\ SameBag(sorted, current)
        /\ Len(sorted) = Len(current)
        /\ \A i \in 1..(Len(sorted) - 1) : sorted[i].days_left <= sorted[i + 1].days_left
        /\ TiesKeepOrder(sorted, current)

C4_Witness ==
    /\ status = "sorted"
    /\ order = Some("TimeAsc")
    /\ current = <<FutureEvent("C", 900), FutureEvent("B", 1020), FutureEvent("A", 900)>>
    /\ sorted = <<FutureEvent("C", 900), FutureEvent("A", 900), FutureEvent("B", 1020)>>

\* C5: sort_events with TimeDesc returns a permutation of its input that is
\* non-increasing in days_left, events with equal days_left in input order
\* (ties are not reversed).
C5_DescendingStable ==
    (Ordered /\ order = Some("TimeDesc")) =>
        /\ SameBag(sorted, current)
        /\ Len(sorted) = Len(current)
        /\ \A i \in 1..(Len(sorted) - 1) : sorted[i].days_left >= sorted[i + 1].days_left
        /\ TiesKeepOrder(sorted, current)

C5_Witness ==
    /\ status = "sorted"
    /\ order = Some("TimeDesc")
    /\ current = <<FutureEvent("A", 900), FutureEvent("B", 1020), FutureEvent("C", 900)>>
    /\ sorted = <<FutureEvent("B", 1020), FutureEvent("A", 900), FutureEvent("C", 900)>>

\* C6: limit_events without a limit returns its input; with limit k it
\* returns the first min(k, length) elements in their order, so 0 gives the
\* empty list and a limit above the length gives the whole input.
C6_LimitIsPrefix ==
    status = "limited" =>
        IF n.ok
        THEN /\ Len(result) = Min(n.v, Len(sorted))
             /\ \A i \in 1..Len(result) : result[i] = sorted[i]
             /\ (n.v = 0 => result = <<>>)
             /\ (n.v > Len(sorted) => result = sorted)
        ELSE result = sorted

C6_Witness ==
    /\ status = "limited"
    /\ n = Some(2)
    /\ Len(sorted) = 3
    /\ result = <<sorted[1], sorted[2]>>

\* C7: applicable_events returns limit(order(filter(R, events), policy),
\* limit): filtered first, ordered second, truncated last, no policy meaning
\* ascending; in the scenario, ascending without a limit gives [{C,1},{A,2}]
\* and descending with limit 1 gives [{A,2}].
C7_Composition ==
    status = "listed" =>
        /\ IF order = Some("Shuffle")
           THEN /\ SameBag(sorted, ExpFilter(now, events))
                /\ Len(sorted) = Len(ExpFilter(now, events))
                /\ result = ExpLimit(sorted, n)
           ELSE result = ExpLimit(ExpOrder(ExpFilter(now, events),
                                           order # Some("TimeDesc")), n)
        /\ (Scenario /\ order \in {None, Some("TimeAsc")} /\ n = None)
              => result = <<FutureEvent("C", 1), FutureEvent("A", 2)>>
        /\ (Scenario /\ order = Some("TimeDesc") /\ n = Some(1))
              => result = <<FutureEvent("A", 2)>>

C7_Witness ==
    /\ Scenario
    /\ order = Some("TimeDesc")
    /\ n = Some(1)
    /\ result = <<FutureEvent("A", 2)>>

\* C8: whatever the random source draws, sort_events with Shuffle returns a
\* list of the length of its input holding the same elements, each as many
\* times, and the input list is left as it was.
C8_ShufflePermutes ==
    /\ [](Ordered /\ order = Some("Shuffle")
            => Len(sorted) = Len(current) /\ SameBag(sorted, current))
    /\ [][current' = current]_vars

C8_Witness ==
    /\ status = "sorted"
    /\ order = Some("Shuffle")
    /\ current = <<FutureEvent("A", 900), FutureEvent("A", 900), FutureEvent("B", 1020)>>
    /\ sorted = <<FutureEvent("B", 1020), FutureEvent("A", 900), FutureEvent("A", 900)>>

\* C9: an event more than 65535 whole days after the reference instant (which
\* may be before the epoch) is dropped, not emitted with a wrapped count;
\* every emitted days_left is in 0..65535 and is the floor of the day count.
C9_OverflowDropped ==
    status = "filtered" =>
        /\ ~Earlier(EventInstant(events[1]), DaysLater(now, U16_MAX + 1))
              => current = <<>>
        /\ \A i \in 1..Len(current) :
              /\ current[i].days_left \in 0..U16_MAX
              /\ IsFloorDays(events[1], now, current[i].days_left)

C9_Witness ==
    /\ status = "filtered"
    /\ now = Time(-15826, 23295, 0)
    /\ events[1].time = Secs(U32_MAX_DAYS, U32_MAX_SECS)
    /\ current = <<>>

====
